---- MODULE Spec2Model ----
(***************************************************************************)
(* Data pipeline of the department console: record validators              *)
(* (app/models.py), CSVLoader (app/services/csv_loader.py), the DataLoader  *)
(* orchestrator (app/services/data_loader.py) and GeoJSONLoader            *)
(* (app/services/geojson_loader.py).                                       *)
(*                                                                         *)
(* A table cell is an option value: None is pandas' null (None / NaN),     *)
(* Some(v) a present value.  A table is a record [columns, rows] whose     *)
(* rows are functions from the column names to cells.                      *)
(***************************************************************************)
EXTENDS Integers, Sequences, FiniteSets, TLC

VARIABLES
    regionsDir,   \* the entries of regions_dir, in iterdir() order
    dataCsv,      \* the rows of app/data/analytic/data.csv
    loader,       \* the DataLoader instance (its attributes)
    gdfResult,    \* outcome of DataLoader.create_gdf
    csvFile,      \* the CSV file handed to a CSVLoader operation
    csvResult,    \* outcome of the CSVLoader operation
    rec,          \* a raw mapping handed to OrganizationRecord.model_validate
    recResult,    \* outcome of that validation
    geoDir,       \* the entries of the directory handed to GeoJSONLoader
    geoResult,    \* outcome of the geojson_loader operation
    reread,       \* outcome of a later load_data() through the same DataLoader
    pages,        \* the module-level tables of pages/home.py and pages/region.py
    response      \* what the last page callback returned

vars == <<regionsDir, dataCsv, loader, gdfResult, csvFile, csvResult, rec, recResult,
          geoDir, geoResult, reread, pages, response>>

----------------------------------------------------------------------------
(* Bounds of the model *)

MaxFiles == 3
MaxDataRows == 2
MaxCsvRows == 2
MaxPageFiles == 2

----------------------------------------------------------------------------
(* Cells and small helpers *)

Some(v) == <<v>>
None == <<>>
IsSome(c) == c # None
Val(c) == c[1]

Range(s) == {s[i] : i \in 1..Len(s)}

RECURSIVE Flatten(_)
Flatten(ss) == IF ss = <<>> THEN <<>> ELSE Head(ss) \o Flatten(Tail(ss))

NoTable == [columns |-> {}, rows |-> <<>>]

----------------------------------------------------------------------------
(* Inputs: region files and data.csv rows *)

MAX_FILE_SIZE == 100 * 1024 * 1024

RegionNames == {"A", "B"}

Feature(n, l, t) ==
    [properties |-> [name |-> n, name_latin |-> l], gtype |-> t]

\* a well-formed region file: one Polygon/MultiPolygon feature with a name
GoodRegionFiles ==
    { [suffix |-> ".geojson", size |-> 1, features |-> <<Feature(Some(n), Some("latin"), "Polygon")>>] :
          n \in RegionNames }
    \cup { [suffix |-> ".geojson", size |-> 1,
            features |-> <<Feature(Some("A"), None, "MultiPolygon")>>] }

BadRegionFiles ==
    { [suffix |-> ".geojson", size |-> 1,
       features |-> <<Feature(Some("A"), None, "Polygon"), Feature(Some("B"), None, "Polygon")>>],
      [suffix |-> ".geojson", size |-> 1, features |-> <<Feature(None, None, "Polygon")>>],
      [suffix |-> ".geojson", size |-> 1, features |-> <<Feature(Some("A"), None, "Point")>>] }

OtherFiles ==
    { [suffix |-> ".txt", size |-> 1, features |-> <<>>] }

\* a well-formed region file one byte over the size limit
OversizedRegionFiles ==
    { [suffix |-> ".geojson", size |-> MAX_FILE_SIZE + 1,
       features |-> <<Feature(Some("A"), Some("latin"), "Polygon")>>] }

\* a region file whose feature has a null geometry
NullGeometryFiles ==
    { [suffix |-> ".geojson", size |-> 1,
       features |-> <<Feature(Some("B"), Some("latin"), "null")>>] }

RegionFiles ==
    GoodRegionFiles \cup BadRegionFiles \cup OtherFiles \cup OversizedRegionFiles
    \cup NullGeometryFiles

\* the entries of the directory handed to GeoJSONLoader: the files above, a
\* file of exactly the size limit, a file without features, and oversized
\* files that are malformed or are not region files
GeoFiles ==
    RegionFiles \cup
    { [suffix |-> ".geojson", size |-> MAX_FILE_SIZE,
       features |-> <<Feature(Some("B"), Some("latin"), "Polygon")>>],
      [suffix |-> ".geojson", size |-> 1, features |-> <<>>],
      [suffix |-> ".geojson", size |-> MAX_FILE_SIZE + 1,
       features |-> <<Feature(Some("A"), None, "Polygon"), Feature(Some("B"), None, "Polygon")>>],
      [suffix |-> ".txt", size |-> MAX_FILE_SIZE + 1, features |-> <<>>] }

AnalyticCols ==
    {"region_name", "region", "value", "percent_change", "budget_millions",
     "population_change", "details"}

AnalyticStrCols == {"region_name", "region", "details"}

\* one parsed line of data.csv (pd.read_csv): an empty cell is null
DataRow(r, v) ==
    [c \in AnalyticCols |->
        IF c \in {"region_name", "region"} THEN r
        ELSE IF c = "details" THEN Some("text")
        ELSE v]

DataRows ==
    { DataRow(Some("A"), v) : v \in {Some(1), Some(2)} }
    \cup { DataRow(r, Some(1)) : r \in {Some("B"), Some("Z"), None} }

----------------------------------------------------------------------------
(* models.py: GeoJSON feature and AnalyticRecord validation *)

\* GeoJSONFeatureProperties: name is a required str, name_latin Optional[str]
GeoJSONFeatureProperties_valid(p) == IsSome(p.name)

\* GeoJSONGeometry: type is Literal["Polygon", "MultiPolygon"]
GeoJSONGeometry_valid(t) == t \in {"Polygon", "MultiPolygon"}

GeoJSONFeature_valid(f) ==
    GeoJSONFeatureProperties_valid(f.properties) /\ GeoJSONGeometry_valid(f.gtype)

\* an entry of a pydantic ValidationError: the location, the error type, the
\* field names the entry mentions, and the offending input
ErrorEntry(loc, type, names, input) ==
    [loc |-> loc, type |-> type, names |-> names, input |-> input]

\* extra="forbid": one entry per key the model does not declare
ExtraErrors(row, fields) ==
    { ErrorEntry(c, "extra_forbidden", {c}, <<row[c]>>) : c \in DOMAIN row \ fields }

\* the check of one declared field of AnalyticRecord: str fields reject null;
\* float fields accept any float, NaN included
AnalyticFieldError(row, f) ==
    IF f \notin DOMAIN row
    THEN {ErrorEntry(f, "missing", {f}, <<None>>)}
    ELSE IF f \in AnalyticStrCols /\ ~IsSome(row[f])
    THEN {ErrorEntry(f, "string_type", {f}, <<row[f]>>)}
    ELSE {}

AnalyticRecord_errors(row) ==
    UNION { AnalyticFieldError(row, f) : f \in AnalyticCols } \cup ExtraErrors(row, AnalyticCols)

AnalyticRecord_valid(row) == AnalyticRecord_errors(row) = {}

\* validate_analytic_dataframe: every row is validated as an AnalyticRecord
validate_analytic_dataframe(rows) ==
    \A i \in 1..Len(rows) : AnalyticRecord_valid(rows[i])

----------------------------------------------------------------------------
(* models.py: OrganizationRecord *)

OrgStrFields == {"city", "region"}

OrgIntFields ==
    {"by_staff", "by_list", "buget_limits", "cash_execution", "equipment",
     "faulty_equipment"}

OrgFields == OrgStrFields \cup OrgIntFields

\* Field(..., ge=0, le=100)
FieldMin == 0
FieldMax == 100

\* the check of one declared field of OrganizationRecord; a null cell (NaN)
\* is neither a str nor an int
OrgFieldError(row, f) ==
    IF f \notin DOMAIN row
    THEN {ErrorEntry(f, "missing", {f}, <<None>>)}
    ELSE IF ~IsSome(row[f])
    THEN {ErrorEntry(f, IF f \in OrgStrFields THEN "string_type" ELSE "int_type", {f}, <<row[f]>>)}
    ELSE IF f \in OrgStrFields THEN {}
    ELSE IF Val(row[f]) < FieldMin
    THEN {ErrorEntry(f, "greater_than_equal", {f}, <<row[f]>>)}
    ELSE IF Val(row[f]) > FieldMax
    THEN {ErrorEntry(f, "less_than_equal", {f}, <<row[f]>>)}
    ELSE {}

\* field validation that stops at the first failing field
OrgFieldErrors_first(row) ==
    LET failing == { f \in OrgFields : OrgFieldError(row, f) # {} } IN
    IF failing = {} THEN ExtraErrors(row, OrgFields)
    ELSE OrgFieldError(row, CHOOSE f \in failing : TRUE)

\* field validation collects the errors of all fields
OrgFieldErrors(row) ==
    UNION { OrgFieldError(row, f) : f \in OrgFields } \cup ExtraErrors(row, OrgFields)

\* validate_dependencies without its last rule
validate_dependencies_two(row) ==
    IF Val(row["by_list"]) > Val(row["by_staff"])
    THEN {ErrorEntry("", "value_error", {"by_list", "by_staff"},
                     <<row["by_list"], row["by_staff"]>>)}
    ELSE IF Val(row["cash_execution"]) > Val(row["buget_limits"])
    THEN {ErrorEntry("", "value_error", {"cash_execution", "buget_limits"},
                     <<row["cash_execution"], row["buget_limits"]>>)}
    ELSE {}

\* OrganizationRecord.validate_dependencies: raises at the first violated rule
validate_dependencies(row) ==
    IF Val(row["by_list"]) > Val(row["by_staff"])
    THEN {ErrorEntry("", "value_error", {"by_list", "by_staff"},
                     <<row["by_list"], row["by_staff"]>>)}
    ELSE IF Val(row["cash_execution"]) > Val(row["buget_limits"])
    THEN {ErrorEntry("", "value_error", {"cash_execution", "buget_limits"},
                     <<row["cash_execution"], row["buget_limits"]>>)}
    ELSE IF Val(row["faulty_equipment"]) > Val(row["equipment"])
    THEN {ErrorEntry("", "value_error", {"faulty_equipment", "equipment"},
                     <<row["faulty_equipment"], row["equipment"]>>)}
    ELSE {}

\* the cross-field validator run whether or not the fields passed
OrganizationRecord_errors_always(row) ==
    OrgFieldErrors(row) \cup
    (IF \A f \in OrgIntFields : f \in DOMAIN row /\ IsSome(row[f])
     THEN validate_dependencies(row) ELSE {})

\* OrganizationRecord.model_validate: the mode="after" validator runs on the
\* constructed model, that is only when no field failed
OrganizationRecord_errors(row) ==
    IF OrgFieldErrors(row) # {} THEN OrgFieldErrors(row) ELSE validate_dependencies(row)

OrganizationRecord_validate(row) ==
    [done |-> TRUE,
     valid |-> OrganizationRecord_errors(row) = {},
     errors |-> OrganizationRecord_errors(row)]

NotValidated == [done |-> FALSE, valid |-> FALSE, errors |-> {}]

\* pd.DataFrame([r.model_dump() for r in records]): no record, no column
FrameOfRecords(rows, cols) ==
    [columns |-> IF rows = <<>> THEN {} ELSE cols, rows |-> rows]

----------------------------------------------------------------------------
(* Arithmetic of the derived columns: a float is an exact fraction <<n, d>>   *)
(* in lowest terms with d > 0; <<1, 0>> and <<-1, 0>> are +inf and -inf, and  *)
(* None is NaN                                                                *)

Abs(n) == IF n < 0 THEN -n ELSE n

RECURSIVE Gcd(_, _)
Gcd(a, b) == IF b = 0 THEN a ELSE Gcd(b, a % b)

Frac(n, d) ==
    LET g == Gcd(Abs(n), Abs(d))
        sgn == IF d < 0 THEN -1 ELSE 1
    IN <<sgn * (n \div g), sgn * (d \div g)>>

\* Series / Series on numeric columns: x/0 is +-inf, 0/0 and NaN operands are NaN
Divide(a, b) ==
    IF ~IsSome(a) \/ ~IsSome(b) THEN None
    ELSE IF Val(b) = 0
         THEN IF Val(a) = 0 THEN None
              ELSE IF Val(a) > 0 THEN Some(<<1, 0>>) ELSE Some(<<-1, 0>>)
         ELSE Some(Frac(Val(a), Val(b)))

\* Series - Series
Minus(a, b) == IF ~IsSome(a) \/ ~IsSome(b) THEN None ELSE Some(Val(a) - Val(b))

FracLess(x, y) ==
    IF x[2] = 0 /\ y[2] = 0 THEN x[1] < y[1] ELSE x[1] * y[2] < y[1] * x[2]

\* min(axis=1, skipna=False): NaN as soon as one cell is NaN
RowMin_propagating(cells) ==
    IF \E c \in cells : ~IsSome(c) THEN None
    ELSE CHOOSE m \in cells : \A o \in cells : ~FracLess(Val(o), Val(m))

\* DataFrame.min(axis=1): skipna=True, NaN only when every cell is NaN
RowMin(cells) ==
    LET present == { c \in cells : IsSome(c) } IN
    IF present = {} THEN None
    ELSE CHOOSE m \in present : \A o \in present : ~FracLess(Val(o), Val(m))

----------------------------------------------------------------------------
(* csv_loader.py: CSVLoader *)

DerivedCols == {"staffing", "cash_use", "serviceability", "value"}

staffing(row) == Divide(row["by_list"], row["by_staff"])

\* the ratio taken upside down
cash_use_inverted(row) == Divide(row["buget_limits"], row["cash_execution"])

cash_use(row) == Divide(row["cash_execution"], row["buget_limits"])

serviceability(row) ==
    Divide(Minus(row["equipment"], row["faulty_equipment"]), row["equipment"])

\* the four computed cells of one line of the frame (lines 104-109)
CalculatedRow(row) ==
    [c \in DerivedCols |->
        CASE c = "staffing" -> staffing(row)
          [] c = "cash_use" -> cash_use(row)
          [] c = "serviceability" -> serviceability(row)
          [] c = "value" -> RowMin({staffing(row), cash_use(row), serviceability(row)})]

\* calculated_cols: computed on the raw frame, before validation
calculated_cols(rows) == [i \in 1..Len(rows) |-> CalculatedRow(rows[i])]

\* the computed cells re-attached in reverse order
AttachCalculated_reversed(validRows, calc) ==
    [i \in 1..Len(validRows) |->
        [c \in DOMAIN validRows[i] \cup DerivedCols |->
            IF c \in DerivedCols
            THEN calc[Len(validRows) + 1 - i][c]
            ELSE validRows[i][c]]]

\* valid_df[c] = calculated_cols[c]: assignment aligns on the index, which is
\* 0..n-1 on both sides; a label missing on the right gives NaN
AttachCalculated(validRows, calc) ==
    [i \in 1..Len(validRows) |->
        [c \in DOMAIN validRows[i] \cup DerivedCols |->
            IF c \in DerivedCols
            THEN (IF i \in DOMAIN calc THEN calc[i][c] ELSE None)
            ELSE validRows[i][c]]]

ModelFields(model) ==
    IF model = "OrganizationRecord" THEN OrgFields ELSE AnalyticCols

\* model.model_validate(record)
ModelErrors(model, row) ==
    IF model = "OrganizationRecord"
    THEN OrganizationRecord_errors(row)
    ELSE AnalyticRecord_errors(row)

InvalidRows(model, rows) == { i \in 1..Len(rows) : ModelErrors(model, rows[i]) # {} }

\* every row validated and the errors of all invalid rows collected
ValidationDetail_all(model, rows) ==
    UNION { ModelErrors(model, rows[i]) : i \in InvalidRows(model, rows) }

\* [model.model_validate(r) for r in df.to_dict("records")]: the comprehension
\* propagates the ValidationError of the first row that fails
ValidationDetail(model, rows) ==
    LET bad == InvalidRows(model, rows)
        first == CHOOSE i \in bad : \A j \in bad : i <= j
    IN ModelErrors(model, rows[first])

\* Path.resolve() on a path without symlinks: ".." steps up, never above the root
RECURSIVE ResolveFrom(_, _)
ResolveFrom(done, rest) ==
    IF rest = <<>> THEN done
    ELSE IF Head(rest) = ".."
         THEN ResolveFrom(IF done = <<>> THEN <<>> ELSE SubSeq(done, 1, Len(done) - 1), Tail(rest))
         ELSE ResolveFrom(Append(done, Head(rest)), Tail(rest))

Resolve(path) == ResolveFrom(<<>>, path)

\* PurePath.relative_to succeeds when base is a leading part of path
IsRelativeTo(path, base) ==
    Len(base) <= Len(path) /\ SubSeq(path, 1, Len(base)) = base

\* what a CSVLoader call leaves: the steps it performed on the file (resolve,
\* stat, read, compute, validate), whether it wrote a security_logger warning,
\* and the table, or the exception with what its message carries (the path,
\* the wrapped validation errors)
CsvOutcome(op, model, base_dir, trace, status, exc, kind, namesPath, logged, detail, table) ==
    [op |-> op, model |-> model, base_dir |-> base_dir, trace |-> trace,
     status |-> status, exc |-> exc, kind |-> kind, namesPath |-> namesPath,
     logged |-> logged, detail |-> detail, table |-> table]

CsvError(op, model, base_dir, trace, exc, kind, namesPath, logged, detail) ==
    CsvOutcome(op, model, base_dir, trace, "error", exc, kind, namesPath, logged, detail, NoTable)

NoCsvResult == CsvOutcome("none", "", None, <<>>, "none", "", "", FALSE, FALSE, {}, NoTable)

\* the size guard shared by the three loaders: path.stat(), the warning and
\* the ValueError, whose message holds the two sizes only
SizeError(op, model, base_dir, trace) ==
    CsvError(op, model, base_dir, Append(trace, "stat"), "ValueError", "size", FALSE, TRUE, {})

\* a loader that skips the rows failing validation
ValidateFrame_skip(op, file, model, base_dir, trace) ==
    LET valid(r) == ModelErrors(model, r) = {}
    IN CsvOutcome(op, model, base_dir, trace, "ok", "", "", FALSE, FALSE, {},
                  FrameOfRecords(SelectSeq(file.rows, valid), ModelFields(model)))

\* the part shared by the three loaders after the read: validate every row,
\* rebuild the frame from the validated records
ValidateFrame(op, file, model, base_dir, trace) ==
    IF InvalidRows(model, file.rows) # {}
    THEN CsvError(op, model, base_dir, trace, "ValueError", "validation", TRUE, FALSE,
                  ValidationDetail(model, file.rows))
    ELSE CsvOutcome(op, model, base_dir, trace, "ok", "", "", FALSE, FALSE, {},
                    FrameOfRecords(file.rows, ModelFields(model)))

\* CSVLoader.load_analytic_data
load_analytic_data(file) ==
    IF file.size > MAX_FILE_SIZE
    THEN SizeError("load_analytic_data", "AnalyticRecord", None, <<>>)
    ELSE ValidateFrame("load_analytic_data", file, "AnalyticRecord", None,
                       <<"stat", "read", "validate">>)

\* df[org_cols]: the rows cut down to the columns of OrganizationRecord
org_df(file) ==
    [file EXCEPT !.columns = OrgFields,
                 !.rows = [i \in 1..Len(file.rows) |-> [c \in OrgFields |-> file.rows[i][c]]]]

\* CSVLoader.load_organizations_data
load_organizations_data(file) ==
    IF file.size > MAX_FILE_SIZE
    THEN SizeError("load_organizations_data", "OrganizationRecord", None, <<>>)
    ELSE IF ~(OrgFields \subseteq file.columns)
    THEN CsvError("load_organizations_data", "OrganizationRecord", None,
                  <<"stat", "read", "compute">>, "KeyError", "column", FALSE, FALSE, {})
    ELSE LET calc == calculated_cols(file.rows)
             checked == ValidateFrame("load_organizations_data", org_df(file),
                                      "OrganizationRecord", None,
                                      <<"stat", "read", "compute", "validate">>)
         IN IF checked.status = "error" THEN checked
            ELSE [checked EXCEPT
                    !.table = [columns |-> checked.table.columns \cup DerivedCols,
                               rows |-> AttachCalculated(checked.table.rows, calc)]]

\* load_csv with the size check ahead of the traversal check
load_csv_size_first(file, model, base_dir) ==
    IF file.size > MAX_FILE_SIZE
    THEN SizeError("load_csv", model, base_dir, <<>>)
    ELSE IF IsSome(base_dir) /\ ~IsRelativeTo(Resolve(file.path), Resolve(Val(base_dir)))
    THEN CsvError("load_csv", model, base_dir, <<"stat", "resolve">>, "ValueError",
                  "traversal", TRUE, TRUE, {})
    ELSE ValidateFrame("load_csv", file, model, base_dir, <<"stat", "resolve", "read", "validate">>)

\* CSVLoader.load_csv
load_csv(file, model, base_dir) ==
    LET checked == IF IsSome(base_dir) THEN <<"resolve">> ELSE <<>>
    IN IF IsSome(base_dir) /\ ~IsRelativeTo(Resolve(file.path), Resolve(Val(base_dir)))
       THEN CsvError("load_csv", model, base_dir, checked, "ValueError", "traversal",
                     TRUE, TRUE, {})
       ELSE IF file.size > MAX_FILE_SIZE
       THEN SizeError("load_csv", model, base_dir, checked)
       ELSE ValidateFrame("load_csv", file, model, base_dir,
                          checked \o <<"stat", "read", "validate">>)

----------------------------------------------------------------------------
(* data_loader.py: DataLoader *)

GeoCols == {"name", "name_latin", "geometry"}

\* gpd.read_file: one row per feature, a column per property plus geometry;
\* the geometry of the file at position idx of the directory is Some(idx), a
\* null geometry is a null cell
ReadGeoFile(file, idx) ==
    [columns |-> GeoCols,
     rows |-> [k \in 1..Len(file.features) |->
                  [c \in GeoCols |->
                      IF c = "geometry"
                      THEN (IF file.features[k].gtype = "null" THEN None ELSE Some(idx))
                      ELSE file.features[k].properties[c]]]]

\* a loader that hands a feature without geometry on, its properties validated
DL_load_and_validate_geojson_file_nullable(file, idx) ==
    LET raw == ReadGeoFile(file, idx) IN
    IF Len(raw.rows) # 1
    THEN [ok |-> FALSE, error |-> "ValueError", raw |-> NoTable]
    ELSE IF raw.rows[1]["geometry"] = None
    THEN [ok |-> GeoJSONFeatureProperties_valid(file.features[1].properties),
          error |-> "", raw |-> raw]
    ELSE IF ~GeoJSONFeature_valid(file.features[1])
    THEN [ok |-> FALSE, error |-> "ValidationError", raw |-> NoTable]
    ELSE [ok |-> TRUE, error |-> "", raw |-> raw]

\* DataLoader._load_and_validate_geojson_file; row["geometry"].__geo_interface__
\* raises AttributeError on a null geometry
DL_load_and_validate_geojson_file(file, idx) ==
    LET raw == ReadGeoFile(file, idx) IN
    IF Len(raw.rows) # 1
    THEN [ok |-> FALSE, error |-> "ValueError", raw |-> NoTable]
    ELSE IF raw.rows[1]["geometry"] = None
    THEN [ok |-> FALSE, error |-> "AttributeError", raw |-> NoTable]
    ELSE IF ~GeoJSONFeature_valid(file.features[1])
    THEN [ok |-> FALSE, error |-> "ValidationError", raw |-> NoTable]
    ELSE [ok |-> TRUE, error |-> "", raw |-> raw]

\* every directory entry taken, whatever its suffix
GeojsonPositions_all(dir) == 1..Len(dir)

\* the positions of the directory entries the loop does not skip
GeojsonPositions(dir) == { i \in 1..Len(dir) : dir[i].suffix = ".geojson" }

\* pd.concat(gdf_data, ignore_index=True)
ConcatFrames(frames) ==
    [columns |-> UNION { frames[i].columns : i \in 1..Len(frames) },
     rows |-> Flatten([i \in 1..Len(frames) |-> frames[i].rows])]

\* json_df.dropna(inplace=True, axis=1): how="any" by default, so a column
\* holding at least one null is dropped
DropNaCols(t) ==
    LET keep == { c \in t.columns : \A i \in 1..Len(t.rows) : IsSome(t.rows[i][c]) } IN
    [columns |-> keep,
     rows |-> [i \in 1..Len(t.rows) |-> [c \in keep |-> t.rows[i][c]]]]

RECURSIVE KeepFirstByName(_, _)
KeepFirstByName(rows, seen) ==
    IF rows = <<>> THEN <<>>
    ELSE IF Head(rows)["name"] \in seen
         THEN KeepFirstByName(Tail(rows), seen)
         ELSE <<Head(rows)>> \o KeepFirstByName(Tail(rows), seen \cup {Head(rows)["name"]})

\* drop_duplicates(subset="name", keep="last")
DropDuplicatesByName_last(t) ==
    LET n == Len(t.rows)
        reversed == [k \in 1..n |-> t.rows[n + 1 - k]]
        kept == KeepFirstByName(reversed, {})
    IN [columns |-> t.columns, rows |-> [k \in 1..Len(kept) |-> kept[Len(kept) + 1 - k]]]

\* json_df.drop_duplicates(subset="name"): keep="first"
DropDuplicatesByName(t) ==
    [columns |-> t.columns, rows |-> KeepFirstByName(t.rows, {})]

\* the rows of the right table matching one left row, in the right order
MatchesOf(lrow, right, leftOn, rightOn) ==
    SelectSeq(right.rows, LAMBDA r : r[rightOn] = lrow[leftOn])

JoinRow(lrow, rrow, lcols, rcols) ==
    [c \in lcols \cup rcols |-> IF c \in lcols THEN lrow[c] ELSE rrow[c]]

NullRow(cols) == [c \in cols |-> None]

\* how="inner": a left row without a match is lost
MergeInner(left, right, leftOn, rightOn) ==
    [columns |-> left.columns \cup right.columns,
     rows |-> Flatten([i \in 1..Len(left.rows) |->
                 LET m == MatchesOf(left.rows[i], right, leftOn, rightOn) IN
                 [k \in 1..Len(m) |->
                     JoinRow(left.rows[i], m[k], left.columns, right.columns)]])]

\* how="outer": the right rows without a match are appended with a null left part
MergeOuter(left, right, leftOn, rightOn) ==
    [columns |-> left.columns \cup right.columns,
     rows |-> MergeInner(left, right, leftOn, rightOn).rows \o
              Flatten([i \in 1..Len(left.rows) |->
                 IF MatchesOf(left.rows[i], right, leftOn, rightOn) = <<>>
                 THEN <<JoinRow(left.rows[i], NullRow(right.columns), left.columns, right.columns)>>
                 ELSE <<>>]) \o
              Flatten([j \in 1..Len(right.rows) |->
                 IF \E i \in 1..Len(left.rows) : left.rows[i][leftOn] = right.rows[j][rightOn]
                 THEN <<>>
                 ELSE <<JoinRow(NullRow(left.columns), right.rows[j], left.columns, right.columns)>>])]

\* left.merge(right, left_on=..., right_on=..., how="left"): every left row,
\* in left order, once per matching right row, or once with a null right part
MergeLeft(left, right, leftOn, rightOn) ==
    [columns |-> left.columns \cup right.columns,
     rows |-> Flatten([i \in 1..Len(left.rows) |->
                 LET m == MatchesOf(left.rows[i], right, leftOn, rightOn) IN
                 IF m = <<>>
                 THEN <<JoinRow(left.rows[i], NullRow(right.columns), left.columns, right.columns)>>
                 ELSE [k \in 1..Len(m) |->
                          JoinRow(left.rows[i], m[k], left.columns, right.columns)]])]

\* json_df of create_gdf: concat, dropna(axis=1), drop_duplicates("name")
JsonDf(dir) ==
    LET pos == GeojsonPositions(dir)
        ordered == SelectSeq([i \in 1..Len(dir) |-> i], LAMBDA i : i \in pos)
        frames == [k \in 1..Len(ordered) |->
                      DL_load_and_validate_geojson_file(dir[ordered[k]], ordered[k]).raw]
    IN DropDuplicatesByName(DropNaCols(ConcatFrames(frames)))

\* pandas' DataFrame.merge: the result is a plain DataFrame
MergedClass_pandas(left, columns) == "DataFrame"

\* the class of the frame left.merge(...) returns: geopandas returns a
\* GeoDataFrame for a GeoDataFrame receiver whose geometry column is in the
\* result, a plain DataFrame otherwise
MergedClass(left, columns) ==
    IF left = "GeoDataFrame" /\ "geometry" \in columns THEN "GeoDataFrame" ELSE "DataFrame"

\* DataLoader.create_gdf
create_gdf(dir, csv) ==
    LET pos == GeojsonPositions(dir)
        bad == { i \in pos : ~DL_load_and_validate_geojson_file(dir[i], i).ok }
        firstBad == CHOOSE i \in bad : \A j \in bad : i <= j
    IN
    IF bad # {}
    THEN [status |-> "error",
          error |-> DL_load_and_validate_geojson_file(dir[firstBad], firstBad).error,
          json_df |-> NoTable, merged |-> NoTable, klass |-> ""]
    ELSE IF pos = {}
    THEN [status |-> "error", error |-> "ValueError", json_df |-> NoTable, merged |-> NoTable, klass |-> ""]
    ELSE IF ~validate_analytic_dataframe(csv)
    THEN [status |-> "error", error |-> "ValidationError", json_df |-> NoTable, merged |-> NoTable, klass |-> ""]
    ELSE LET analytic_df == FrameOfRecords(csv, AnalyticCols) IN
         IF "region" \notin analytic_df.columns
         THEN [status |-> "error", error |-> "KeyError", json_df |-> NoTable, merged |-> NoTable, klass |-> ""]
         ELSE LET merged == MergeLeft(JsonDf(dir), analytic_df, "name", "region") IN
              [status |-> "ok", error |-> "", json_df |-> JsonDf(dir), merged |-> merged,
               klass |-> MergedClass("GeoDataFrame", merged.columns)]

NotRun == [status |-> "none", error |-> "", json_df |-> NoTable, merged |-> NoTable, klass |-> ""]

\* DataLoader.__init__ sets regions_dir and nothing else
DataLoader_init == [attrs |-> {"regions_dir"}]

----------------------------------------------------------------------------
(* geojson_loader.py: load_and_validate_geojson_file and GeoJSONLoader *)

\* what a geojson_loader call leaves: the steps performed on one file (stat,
\* read, validate), the directory positions handed to
\* load_and_validate_geojson_file, whether a security_logger warning was
\* written, and the table, or the exception with what its message carries
\* (the path, the number of features found)
GeoOutcome(op, index, trace, loaded, status, exc, kind, namesPath, count, logged, table) ==
    [op |-> op, index |-> index, trace |-> trace, loaded |-> loaded, status |-> status,
     exc |-> exc, kind |-> kind, namesPath |-> namesPath, count |-> count,
     logged |-> logged, table |-> table]

GeoError(index, trace, exc, kind, namesPath, count, logged) ==
    GeoOutcome("load_and_validate_geojson_file", index, trace, <<index>>, "error", exc, kind,
               namesPath, count, logged, NoTable)

NoGeoResult == GeoOutcome("none", 0, <<>>, <<>>, "none", "", "", FALSE, None, FALSE, NoTable)

\* the file read and checked without the size guard
load_and_validate_geojson_file_unguarded(file, idx) ==
    LET raw == ReadGeoFile(file, idx) IN
    IF Len(raw.rows) # 1
    THEN GeoError(idx, <<"read">>, "ValueError", "count", TRUE, Some(Len(raw.rows)), FALSE)
    ELSE IF ~GeoJSONFeature_valid(file.features[1])
    THEN GeoError(idx, <<"read", "validate">>, "ValidationError", "schema", FALSE, None, FALSE)
    ELSE GeoOutcome("load_and_validate_geojson_file", idx, <<"read", "validate">>, <<idx>>,
                    "ok", "", "", FALSE, None, FALSE, raw)

\* the first feature validated whatever the number of features read
load_and_validate_geojson_file_uncounted(file, idx) ==
    LET raw == ReadGeoFile(file, idx) IN
    IF file.size > MAX_FILE_SIZE
    THEN GeoError(idx, <<"stat">>, "ValueError", "size", FALSE, None, TRUE)
    ELSE IF Len(raw.rows) = 0 \/ ~GeoJSONFeature_valid(file.features[1])
    THEN GeoError(idx, <<"stat", "read", "validate">>, "ValidationError", "schema",
                  FALSE, None, FALSE)
    ELSE GeoOutcome("load_and_validate_geojson_file", idx, <<"stat", "read", "validate">>,
                    <<idx>>, "ok", "", "", FALSE, None, FALSE, raw)

\* the size guard without its security_logger warning
load_and_validate_geojson_file_unlogged(file, idx) ==
    LET raw == ReadGeoFile(file, idx) IN
    IF file.size > MAX_FILE_SIZE
    THEN GeoError(idx, <<"stat">>, "ValueError", "size", FALSE, None, FALSE)
    ELSE IF Len(raw.rows) # 1
    THEN GeoError(idx, <<"stat", "read">>, "ValueError", "count", TRUE,
                  Some(Len(raw.rows)), FALSE)
    ELSE IF ~GeoJSONFeature_valid(file.features[1])
    THEN GeoError(idx, <<"stat", "read", "validate">>, "ValidationError", "schema",
                  FALSE, None, FALSE)
    ELSE GeoOutcome("load_and_validate_geojson_file", idx, <<"stat", "read", "validate">>,
                    <<idx>>, "ok", "", "", FALSE, None, FALSE, raw)

\* load_and_validate_geojson_file: the size guard, the read, the
\* single-feature guard, the geometry's __geo_interface__ (AttributeError on a
\* null geometry), the validation of the feature; the frame read is returned
\* as it was read
load_and_validate_geojson_file(file, idx) ==
    LET raw == ReadGeoFile(file, idx) IN
    IF file.size > MAX_FILE_SIZE
    THEN GeoError(idx, <<"stat">>, "ValueError", "size", FALSE, None, TRUE)
    ELSE IF Len(raw.rows) # 1
    THEN GeoError(idx, <<"stat", "read">>, "ValueError", "count", TRUE,
                  Some(Len(raw.rows)), FALSE)
    ELSE IF raw.rows[1]["geometry"] = None
    THEN GeoError(idx, <<"stat", "read">>, "AttributeError", "geometry", FALSE, None, FALSE)
    ELSE IF ~GeoJSONFeature_valid(file.features[1])
    THEN GeoError(idx, <<"stat", "read", "validate">>, "ValidationError", "schema",
                  FALSE, None, FALSE)
    ELSE GeoOutcome("load_and_validate_geojson_file", idx, <<"stat", "read", "validate">>,
                    <<idx>>, "ok", "", "", FALSE, None, FALSE, raw)

\* the directory positions of a set, in iterdir() order
InOrder(dir, pos) == SelectSeq([i \in 1..Len(dir) |-> i], LAMBDA i : i \in pos)

\* a directory load that leaves out the files failing their checks
load_all_regions_skip(dir) ==
    LET pos == GeojsonPositions(dir)
        good == { i \in pos : load_and_validate_geojson_file(dir[i], i).status = "ok" }
        kept == InOrder(dir, good)
        frames == [k \in 1..Len(kept) |-> load_and_validate_geojson_file(dir[kept[k]], kept[k]).table]
    IN
    IF good = {}
    THEN GeoOutcome("load_all_regions", 0, <<>>, InOrder(dir, pos), "error", "ValueError",
                    "no_files", TRUE, None, FALSE, NoTable)
    ELSE GeoOutcome("load_all_regions", 0, <<>>, InOrder(dir, pos), "ok", "", "", FALSE, None,
                    FALSE, DropDuplicatesByName(DropNaCols(ConcatFrames(frames))))

\* GeoJSONLoader.load_all_regions: the loop stops at the first file whose
\* load raises; a directory without .geojson entry is an error of its own
load_all_regions(dir) ==
    LET pos == GeojsonPositions(dir)
        bad == { i \in pos : load_and_validate_geojson_file(dir[i], i).status = "error" }
        firstBad == CHOOSE i \in bad : \A j \in bad : i <= j
        ordered == InOrder(dir, pos)
        frames == [k \in 1..Len(ordered) |->
                      load_and_validate_geojson_file(dir[ordered[k]], ordered[k]).table]
    IN
    IF bad # {}
    THEN [load_and_validate_geojson_file(dir[firstBad], firstBad) EXCEPT
            !.op = "load_all_regions",
            !.loaded = InOrder(dir, { i \in pos : i <= firstBad })]
    ELSE IF pos = {}
    THEN GeoOutcome("load_all_regions", 0, <<>>, <<>>, "error", "ValueError", "no_files",
                    TRUE, None, FALSE, NoTable)
    ELSE GeoOutcome("load_all_regions", 0, <<>>, ordered, "ok", "", "", FALSE, None, FALSE,
                    DropDuplicatesByName(DropNaCols(ConcatFrames(frames))))

----------------------------------------------------------------------------
(* Text of the page layer: a str is a sequence of one-character strings *)

RegionEquals == <<"r", "e", "g", "i", "o", "n", "=">>

RegionKey == <<"r", "e", "g", "i", "o", "n">>

\* t in s
Contains(s, t) ==
    \E i \in 1..Len(s) : i + Len(t) - 1 <= Len(s) /\ SubSeq(s, i, i + Len(t) - 1) = t

\* s.lstrip(ch)
RECURSIVE LStrip(_, _)
LStrip(s, ch) == IF s # <<>> /\ Head(s) = ch THEN LStrip(Tail(s), ch) ELSE s

\* the position of the first ch in s, 0 when there is none
IndexOf(s, ch) ==
    IF \E i \in 1..Len(s) : s[i] = ch
    THEN CHOOSE i \in 1..Len(s) : s[i] = ch /\ \A j \in 1..(i - 1) : s[j] # ch
    ELSE 0

\* s.split(ch)
RECURSIVE Split(_, _)
Split(s, ch) ==
    LET i == IndexOf(s, ch) IN
    IF i = 0 THEN <<s>>
    ELSE <<SubSeq(s, 1, i - 1)>> \o Split(SubSeq(s, i + 1, Len(s)), ch)

\* the characters urllib.parse.quote leaves as they are (safe="/")
QuoteSafe ==
    {"A", "B", "C", "D", "E", "F", "Z", "a", "e", "g", "i", "n", "o", "r", "x",
     "0", "1", "2", "3", "4", "5", "_", ".", "-", "~", "/"}

\* the percent code of the other characters of the inputs
PercentCode(c) ==
    CASE c = " " -> <<"%", "2", "0">>
      [] c = "%" -> <<"%", "2", "5">>
      [] c = "&" -> <<"%", "2", "6">>
      [] c = "+" -> <<"%", "2", "B">>
      [] c = "=" -> <<"%", "3", "D">>
      [] c = "?" -> <<"%", "3", "F">>

\* urllib.parse.quote(s)
quote(s) == Flatten([i \in 1..Len(s) |-> IF s[i] \in QuoteSafe THEN <<s[i]>> ELSE PercentCode(s[i])])

\* the character of a two-digit hexadecimal code, for the codes of the inputs
HexCodes ==
    {<<"2", "0">>, <<"2", "5">>, <<"2", "6">>, <<"2", "B">>, <<"3", "D">>, <<"3", "F">>,
     <<"4", "1">>, <<"4", "2">>}

Chr(code) ==
    CASE code = <<"2", "0">> -> " "
      [] code = <<"2", "5">> -> "%"
      [] code = <<"2", "6">> -> "&"
      [] code = <<"2", "B">> -> "+"
      [] code = <<"3", "D">> -> "="
      [] code = <<"3", "F">> -> "?"
      [] code = <<"4", "1">> -> "A"
      [] code = <<"4", "2">> -> "B"

\* ''.join of the pieces lo..hi of ss, by halves
RECURSIVE JoinRange(_, _, _)
JoinRange(ss, lo, hi) ==
    IF lo > hi THEN <<>>
    ELSE IF lo = hi THEN ss[lo]
    ELSE LET mid == (lo + hi) \div 2
         IN JoinRange(ss, lo, mid) \o JoinRange(ss, mid + 1, hi)

\* urllib.parse.unquote(s): each %XX is replaced by its character, a % that
\* no code follows stays; the two digits of a code are never a % themselves
unquote(s) ==
    LET Escape(j) == /\ j >= 1
                     /\ j + 2 <= Len(s)
                     /\ s[j] = "%"
                     /\ SubSeq(s, j + 1, j + 2) \in HexCodes
        pieces == [i \in 1..Len(s) |->
                      IF Escape(i) THEN <<Chr(SubSeq(s, i + 1, i + 2))>>
                      ELSE IF Escape(i - 1) \/ Escape(i - 2) THEN <<>>
                      ELSE <<s[i]>>]
    IN JoinRange(pieces, 1, Len(s))

\* urllib.parse.unquote_plus(s): + becomes a space, then unquote
unquote_plus(s) == unquote([i \in 1..Len(s) |-> IF s[i] = "+" THEN " " ELSE s[i]])

\* urllib.parse.parse_qsl(qs): the name=value fields between &, both parts
\* decoded; a field without = or with an empty value is left out
parse_qsl(qs) ==
    LET fields == Split(qs, "&")
        kept == SelectSeq(fields, LAMBDA f : IndexOf(f, "=") # 0 /\ IndexOf(f, "=") < Len(f))
    IN [k \in 1..Len(kept) |->
           <<unquote_plus(SubSeq(kept[k], 1, IndexOf(kept[k], "=") - 1)),
             unquote_plus(SubSeq(kept[k], IndexOf(kept[k], "=") + 1, Len(kept[k])))>>]

\* parse_qs(search.lstrip("?")).get("region", [""])[0]
RegionParam(search) ==
    LET hits == SelectSeq(parse_qsl(LStrip(search, "?")), LAMBDA nv : nv[1] = RegionKey)
    IN IF hits = <<>> THEN <<>> ELSE hits[1][2]

----------------------------------------------------------------------------
(* pages/home.py and pages/region.py *)

MAX_REGION_NAME_LENGTH == 200

\* a callback's call and what it returns: update_page a page (the dashboard
\* names its region, the other pages are fixed texts), update_map a figure and
\* the href of the Location (None is dash.no_update); clicked is the name of
\* the region the click was on; search, year and clickData are the arguments
Response(op, status, exc, page, region, figure, href, clicked) ==
    [op |-> op, status |-> status, exc |-> exc, page |-> page, region |-> region,
     figure |-> figure, href |-> href, clicked |-> clicked,
     search |-> <<>>, year |-> 0, clickData |-> None]

NoFigure == [with_data |-> {}, without_data |-> {}]

NoResponse == Response("none", "none", "", "", None, NoFigure, None, None)

Page(page, region) == Response("update_page", "ok", "", page, region, NoFigure, None, None)

\* set(gdf["name"].dropna().unique())
ValidRegions(gdf) ==
    { Val(gdf.rows[k]["name"]) : k \in { j \in 1..Len(gdf.rows) : IsSome(gdf.rows[j]["name"]) } }

\* a page that shows every requested region without the whitelist check
update_page_unchecked(search, valid, gdf) ==
    IF search = <<>> \/ ~Contains(search, RegionEquals) THEN Page("not_selected", None)
    ELSE LET region_input == RegionParam(search) IN
         IF region_input = <<>> THEN Page("not_specified", None)
         ELSE Page("dashboard", Some(unquote_plus(region_input)))

\* region.update_page(search)
update_page(search, valid, gdf) ==
    IF search = <<>> \/ ~Contains(search, RegionEquals) THEN Page("not_selected", None)
    ELSE LET region_input == RegionParam(search) IN
         IF region_input = <<>> THEN Page("not_specified", None)
         ELSE IF Len(region_input) > MAX_REGION_NAME_LENGTH THEN Page("validation_error", None)
         ELSE LET decoded == unquote_plus(region_input) IN
              IF decoded \notin valid THEN Page("not_found", None)
              ELSE LET region_data == SelectSeq(gdf.rows, LAMBDA r : r["name"] = Some(decoded))
                   IN IF region_data = <<>> THEN Page("not_found", None)
                      ELSE Page("dashboard", region_data[1]["name"])

\* the index labels of the rows the year filter keeps (a RangeIndex from 0)
FilteredIndex(gdf, year) ==
    IF {"year", "value"} \subseteq gdf.columns
    THEN { k - 1 : k \in { j \in 1..Len(gdf.rows) : gdf.rows[j]["year"] = Some(year) } }
    ELSE { k - 1 : k \in 1..Len(gdf.rows) }

\* the two traces of the map: the regions with a value, the regions without
Figure(gdf, year) ==
    LET kept == FilteredIndex(gdf, year)
        with_data == IF "value" \in gdf.columns
                     THEN { i \in kept : IsSome(gdf.rows[i + 1]["value"]) }
                     ELSE {}
    IN [with_data |-> with_data, without_data |-> kept \ with_data]

RegionPath == <<"/", "r", "e", "g", "i", "o", "n", "?">> \o RegionEquals

\* a callback that sets the href on every call, to the first region without a click
update_map_always(year, clickData, gdf) ==
    LET idx == IF IsSome(clickData) THEN Val(clickData) ELSE 0 IN
    IF idx \notin 0..(Len(gdf.rows) - 1)
    THEN Response("update_map", "error", "KeyError", "", None, NoFigure, None, None)
    ELSE Response("update_map", "ok", "", "", None, Figure(gdf, year),
                  Some(RegionPath \o quote(Val(gdf.rows[idx + 1]["name"]))),
                  gdf.rows[idx + 1]["name"])

\* home.update_map(year, clickData): clickData is None or the index label of
\* the region clicked; gdf.loc raises KeyError on a label that is not in the index
update_map(year, clickData, gdf) ==
    IF ~IsSome(clickData)
    THEN Response("update_map", "ok", "", "", None, Figure(gdf, year), None, None)
    ELSE IF Val(clickData) \notin 0..(Len(gdf.rows) - 1)
    THEN Response("update_map", "error", "KeyError", "", None, NoFigure, None, None)
    ELSE Response("update_map", "ok", "", "", None, Figure(gdf, year),
                  Some(RegionPath \o quote(Val(gdf.rows[Val(clickData) + 1]["name"]))),
                  gdf.rows[Val(clickData) + 1]["name"])

\* the search part of an href: from the first ? on
SearchOf(href) == SubSeq(href, IndexOf(href, "?"), Len(href))

\* DataLoader().gdf: the merged table the loader holds
DataLoader_gdf(dir, csv) == create_gdf(dir, csv).merged

NoPages == [home_gdf |-> NoTable, region_gdf |-> NoTable, VALID_REGIONS |-> {}]

----------------------------------------------------------------------------
(* Specification of the orchestrator *)

IdleCsv ==
    /\ csvFile = [columns |-> {}, size |-> 0, path |-> <<>>, rows |-> <<>>]
    /\ csvResult = NoCsvResult

IdleRec ==
    /\ rec = <<>>
    /\ recResult = NotValidated

\* no directory handed to GeoJSONLoader
IdleGeo ==
    /\ geoDir = None
    /\ geoResult = NoGeoResult

\* no page module imported, no later load_data()
IdlePages ==
    /\ reread = NotRun
    /\ pages = NoPages
    /\ response = NoResponse

Init ==
    /\ regionsDir = <<>>
    /\ dataCsv = <<>>
    /\ loader = DataLoader_init
    /\ gdfResult = NotRun
    /\ IdleCsv
    /\ IdleRec
    /\ IdleGeo
    /\ IdlePages

\* a file appears in the regions directory before the build
PutRegionFile ==
    /\ gdfResult.status = "none"
    /\ Len(regionsDir) < MaxFiles
    /\ \E f \in RegionFiles : regionsDir' = Append(regionsDir, f)
    /\ UNCHANGED <<dataCsv, loader, gdfResult, csvFile, csvResult, rec, recResult, geoDir, geoResult,
                   reread, pages, response>>

\* a line is written to data.csv before the build
PutDataRow ==
    /\ gdfResult.status = "none"
    /\ Len(dataCsv) < MaxDataRows
    /\ \E r \in DataRows : dataCsv' = Append(dataCsv, r)
    /\ UNCHANGED <<regionsDir, loader, gdfResult, csvFile, csvResult, rec, recResult, geoDir, geoResult,
                   reread, pages, response>>

\* loader.create_gdf() (load_data delegates to it)
CreateGdf ==
    /\ gdfResult.status = "none"
    /\ gdfResult' = create_gdf(regionsDir, dataCsv)
    /\ UNCHANGED <<regionsDir, dataCsv, loader, csvFile, csvResult, rec, recResult, geoDir, geoResult,
                   reread, pages, response>>

Next == PutRegionFile \/ PutDataRow \/ CreateGdf

Spec == Init /\ [][Next]_vars

----------------------------------------------------------------------------
(* Specification of the record validator: one raw mapping, validated once *)

RecVals == {None, Some(-1), Some(0), Some(50), Some(60), Some(100), Some(101)}

OrgRow(city, region, s, l, b, c, e, f) ==
    [k \in OrgFields |->
        CASE k = "city" -> city
          [] k = "region" -> region
          [] k = "by_staff" -> s
          [] k = "by_list" -> l
          [] k = "buget_limits" -> b
          [] k = "cash_execution" -> c
          [] k = "equipment" -> e
          [] k = "faulty_equipment" -> f]

RawRecords ==
    { OrgRow(Some("X"), Some("A"), s, l, b, c, e, f) :
          s \in RecVals, l \in RecVals, b \in RecVals, c \in RecVals,
          e \in RecVals, f \in RecVals }

IdleGdf ==
    /\ regionsDir = <<>>
    /\ dataCsv = <<>>
    /\ loader = DataLoader_init
    /\ gdfResult = NotRun

InitRec ==
    /\ IdleGdf
    /\ IdleCsv
    /\ IdleGeo
    /\ IdlePages
    /\ rec \in RawRecords
    /\ recResult = NotValidated

\* OrganizationRecord.model_validate(rec)
ValidateRecord ==
    /\ ~recResult.done
    /\ recResult' = OrganizationRecord_validate(rec)
    /\ UNCHANGED <<regionsDir, dataCsv, loader, gdfResult, csvFile, csvResult, rec, geoDir, geoResult,
                   reread, pages, response>>

NextRec == ValidateRecord

SpecRec == InitRec /\ [][NextRec]_vars

----------------------------------------------------------------------------
(* Specification of the CSV loader: one CSV file, loaded once *)

\* (by_staff, by_list), (buget_limits, cash_execution), (equipment, faulty_equipment)
StaffPairs == {<<100, 80>>, <<50, 60>>, <<0, 0>>}
CashPairs == {<<100, 90>>, <<100, 101>>, <<0, 0>>}
EquipPairs == {<<50, 5>>, <<50, 25>>, <<0, 0>>}

OrgRows ==
    { OrgRow(Some("X"), Some("A"), Some(sp[1]), Some(sp[2]), Some(cp[1]), Some(cp[2]),
             Some(ep[1]), Some(ep[2])) :
          sp \in StaffPairs, cp \in CashPairs, ep \in EquipPairs }

\* the rows of an organizations CSV that has one more column, "comment"
CommentedCols == OrgFields \cup {"comment"}

CommentedOrgRows ==
    { [c \in CommentedCols |-> IF c = "comment" THEN Some("note") ELSE r[c]] :
          r \in { OrgRow(Some("X"), Some("A"), Some(sp[1]), Some(sp[2]), Some(100), Some(90),
                         Some(50), Some(5)) : sp \in StaffPairs } }

CsvRowsFor(columns) ==
    IF columns = OrgFields THEN OrgRows
    ELSE IF columns = CommentedCols THEN CommentedOrgRows
    ELSE DataRows

CsvSizes == {MAX_FILE_SIZE, MAX_FILE_SIZE + 1}

CsvPaths ==
    { <<"data", "analytic", "f.csv">>,
      <<"data", "analytic", "..", "..", "etc", "passwd">> }

BaseDirs == {None, Some(<<"data", "analytic">>)}

InitCsv ==
    /\ IdleGdf
    /\ IdleRec
    /\ IdleGeo
    /\ IdlePages
    /\ csvFile \in [columns : {OrgFields, AnalyticCols, CommentedCols}, size : CsvSizes,
                    path : CsvPaths, rows : {<<>>}]
    /\ csvResult = NoCsvResult

\* a line is written to the CSV file before it is loaded
PutCsvRow ==
    /\ csvFile.path # <<>>
    /\ csvResult.status = "none"
    /\ Len(csvFile.rows) < MaxCsvRows
    /\ \E r \in CsvRowsFor(csvFile.columns) :
          csvFile' = [csvFile EXCEPT !.rows = Append(@, r)]
    /\ UNCHANGED <<regionsDir, dataCsv, loader, gdfResult, csvResult, rec, recResult, geoDir, geoResult,
                   reread, pages, response>>

LoadAnalyticData ==
    /\ csvFile.path # <<>>
    /\ csvResult.status = "none"
    /\ csvResult' = load_analytic_data(csvFile)
    /\ UNCHANGED <<regionsDir, dataCsv, loader, gdfResult, csvFile, rec, recResult, geoDir, geoResult,
                   reread, pages, response>>

LoadOrganizationsData ==
    /\ csvFile.path # <<>>
    /\ csvResult.status = "none"
    /\ csvResult' = load_organizations_data(csvFile)
    /\ UNCHANGED <<regionsDir, dataCsv, loader, gdfResult, csvFile, rec, recResult, geoDir, geoResult,
                   reread, pages, response>>

LoadCsv ==
    /\ csvFile.path # <<>>
    /\ csvResult.status = "none"
    /\ \E model \in {"AnalyticRecord", "OrganizationRecord"}, base_dir \in BaseDirs :
          csvResult' = load_csv(csvFile, model, base_dir)
    /\ UNCHANGED <<regionsDir, dataCsv, loader, gdfResult, csvFile, rec, recResult, geoDir, geoResult,
                   reread, pages, response>>

NextCsv == PutCsvRow \/ LoadAnalyticData \/ LoadOrganizationsData \/ LoadCsv

SpecCsv == InitCsv /\ [][NextCsv]_vars

----------------------------------------------------------------------------
(* Specification of the GeoJSON loader: one directory, one call *)

InitGeo ==
    /\ IdleGdf
    /\ IdleCsv
    /\ IdleRec
    /\ IdlePages
    /\ geoDir = Some(<<>>)
    /\ geoResult = NoGeoResult

\* a file appears in the directory before the call
PutGeoFile ==
    /\ IsSome(geoDir)
    /\ geoResult.status = "none"
    /\ Len(Val(geoDir)) < MaxFiles
    /\ \E f \in GeoFiles : geoDir' = Some(Append(Val(geoDir), f))
    /\ UNCHANGED <<regionsDir, dataCsv, loader, gdfResult, csvFile, csvResult, rec, recResult,
                   geoResult,
                   reread, pages, response>>

\* load_and_validate_geojson_file(path) on one entry of the directory
LoadGeoFile ==
    /\ IsSome(geoDir)
    /\ geoResult.status = "none"
    /\ \E i \in 1..Len(Val(geoDir)) :
          geoResult' = load_and_validate_geojson_file(Val(geoDir)[i], i)
    /\ UNCHANGED <<regionsDir, dataCsv, loader, gdfResult, csvFile, csvResult, rec, recResult,
                   geoDir,
                   reread, pages, response>>

\* GeoJSONLoader(regions_dir).load_all_regions()
LoadAllRegions ==
    /\ IsSome(geoDir)
    /\ geoResult.status = "none"
    /\ geoResult' = load_all_regions(Val(geoDir))
    /\ UNCHANGED <<regionsDir, dataCsv, loader, gdfResult, csvFile, csvResult, rec, recResult,
                   geoDir,
                   reread, pages, response>>

NextGeo == PutGeoFile \/ LoadGeoFile \/ LoadAllRegions

SpecGeo == InitGeo /\ [][NextGeo]_vars

----------------------------------------------------------------------------
(* Specification of the file loaders: a CSVLoader call on a CSV file, or a  *)
(* geojson_loader call on a directory                                       *)

InitLoaders == InitCsv \/ InitGeo

NextLoaders == NextCsv \/ NextGeo

SpecLoaders == InitLoaders /\ [][NextLoaders]_vars

----------------------------------------------------------------------------
(* Specification of repeated loads: one DataLoader, load_data() called, the  *)
(* input files changed, load_data() called again                              *)

InitReload ==
    /\ regionsDir \in { <<f>> : f \in GoodRegionFiles }
    /\ dataCsv \in { <<r>> : r \in DataRows }
    /\ loader = DataLoader_init
    /\ gdfResult = NotRun
    /\ IdleCsv
    /\ IdleRec
    /\ IdleGeo
    /\ IdlePages

\* the first loader.load_data()
FirstLoad ==
    /\ gdfResult.status = "none"
    /\ gdfResult' = create_gdf(regionsDir, dataCsv)
    /\ UNCHANGED <<regionsDir, dataCsv, loader, csvFile, csvResult, rec, recResult,
                   geoDir, geoResult, reread, pages, response>>

\* a file is added to regions_dir after the first load
AddRegionFile ==
    /\ gdfResult.status # "none"
    /\ Len(regionsDir) < MaxFiles
    /\ \E f \in RegionFiles : regionsDir' = Append(regionsDir, f)
    /\ UNCHANGED <<dataCsv, loader, gdfResult, csvFile, csvResult, rec, recResult,
                   geoDir, geoResult, reread, pages, response>>

\* a later loader.load_data() through the same instance: create_gdf() again
LoadDataAgain ==
    /\ gdfResult.status # "none"
    /\ reread' = create_gdf(regionsDir, dataCsv)
    /\ UNCHANGED <<regionsDir, dataCsv, loader, gdfResult, csvFile, csvResult, rec, recResult,
                   geoDir, geoResult, pages, response>>

NextReload == FirstLoad \/ AddRegionFile \/ LoadDataAgain

SpecReload == InitReload /\ [][NextReload]_vars

----------------------------------------------------------------------------
(* Specification of the pages: the two page modules imported over a regions *)
(* directory and a data.csv, then any sequence of callbacks                 *)

PageNames == { <<"A">>, <<"A", "+", "B">>, <<"A", " ", "B">>, <<"%", "4", "1">> }

PageRegionFiles ==
    { [suffix |-> ".geojson", size |-> 1, features |-> <<Feature(Some(n), Some("latin"), "Polygon")>>] :
          n \in PageNames }

PageDirs ==
    UNION { [1..n -> PageRegionFiles] : n \in 1..MaxPageFiles }

PageCsvs == { <<DataRow(Some(n), Some(1))>> : n \in PageNames }

Years == {2000, 2023}

\* clickData: None, or the index label under the click
Clicks == {None} \cup { Some(i) : i \in 0..MaxPageFiles }

LongValue == [i \in 1..(MAX_REGION_NAME_LENGTH + 1) |-> "a"]

Searches ==
    { <<>>, <<"?">>, <<"?", "x", "=", "1">>, <<"?">> \o RegionEquals,
      <<"?">> \o RegionKey,
      <<"?", "x">> \o RegionEquals \o <<"A">>,
      <<"?", "?">> \o RegionEquals \o <<"A">>,
      <<"?", "x", "=", "1", "&">> \o RegionEquals \o <<"A">>,
      <<"?">> \o RegionEquals \o <<"Z">>,
      <<"?">> \o RegionEquals \o LongValue }
    \cup { <<"?">> \o RegionEquals \o n : n \in PageNames }
    \cup { <<"?">> \o RegionEquals \o quote(n) : n \in PageNames }

\* import of pages/home.py (gdf = load_data()) and of pages/region.py
\* (gdf = DataLoader().gdf, VALID_REGIONS)
InitPages ==
    /\ IdleGdf
    /\ IdleCsv
    /\ IdleRec
    /\ IdleGeo
    /\ reread = NotRun
    /\ \E dir \in PageDirs, csv \in PageCsvs :
          pages = [home_gdf |-> create_gdf(dir, csv).merged,
                   region_gdf |-> DataLoader_gdf(dir, csv),
                   VALID_REGIONS |-> ValidRegions(DataLoader_gdf(dir, csv))]
    /\ response = NoResponse

\* a home.update_map callback that rebinds the module's table to the rows it drew
UpdateMap_rebinding ==
    /\ \E year \in Years, clickData \in Clicks :
          /\ response' = [update_map(year, clickData, pages.home_gdf)
                          EXCEPT !.year = year, !.clickData = clickData]
          /\ pages' = [pages EXCEPT !.home_gdf.rows =
                          SelectSeq(pages.home_gdf.rows, LAMBDA r : IsSome(r["value"]))]
    /\ UNCHANGED <<regionsDir, dataCsv, loader, gdfResult, csvFile, csvResult, rec, recResult,
                   geoDir, geoResult, reread>>

\* the home.update_map callback
UpdateMap ==
    /\ \E year \in Years, clickData \in Clicks :
          response' = [update_map(year, clickData, pages.home_gdf)
                       EXCEPT !.year = year, !.clickData = clickData]
    /\ UNCHANGED <<regionsDir, dataCsv, loader, gdfResult, csvFile, csvResult, rec, recResult,
                   geoDir, geoResult, reread, pages>>

\* the region.update_page callback on a query string
UpdatePage ==
    /\ \E search \in Searches :
          response' = [update_page(search, pages.VALID_REGIONS, pages.region_gdf)
                       EXCEPT !.search = search]
    /\ UNCHANGED <<regionsDir, dataCsv, loader, gdfResult, csvFile, csvResult, rec, recResult,
                   geoDir, geoResult, reread, pages>>

\* the browser follows the href update_map returned: update_page on its search part
Navigate ==
    /\ response.op = "update_map"
    /\ IsSome(response.href)
    /\ response' = [update_page(SearchOf(Val(response.href)), pages.VALID_REGIONS,
                                pages.region_gdf)
                    EXCEPT !.op = "navigate", !.clicked = response.clicked,
                           !.search = SearchOf(Val(response.href))]
    /\ UNCHANGED <<regionsDir, dataCsv, loader, gdfResult, csvFile, csvResult, rec, recResult,
                   geoDir, geoResult, reread, pages>>

NextPages == UpdateMap \/ UpdatePage \/ Navigate

SpecPages == InitPages /\ [][NextPages]_vars

----------------------------------------------------------------------------
(* Properties of DataLoader.create_gdf, checked under Spec *)

Built == gdfResult.status = "ok"

Merged == gdfResult.merged

MergedIdx == 1..Len(Merged.rows)

\* the name carried by the region file at position i of the directory
FileName(i) == regionsDir[i].features[1].properties.name

CsvRegions == { dataCsv[j]["region"] : j \in 1..Len(dataCsv) }

AllMetricsNull(row) == \A c \in AnalyticCols : row[c] = None

C2_MergedNamesPairwiseDistinct ==
    Built =>
        \A i, j \in MergedIdx : i # j => Merged.rows[i]["name"] # Merged.rows[j]["name"]

\* C3: a merged row with a non-null region has region = name, and the merged
\* rows carrying CSV data are exactly the (geometry row, CSV row) pairs that
\* match: a CSV row of an unknown region adds no row and no metric
C3_MetricsOnlyForLoadedRegions ==
    Built =>
        /\ \A k \in MergedIdx :
              IsSome(Merged.rows[k]["region"]) => Merged.rows[k]["region"] = Merged.rows[k]["name"]
        /\ \A j \in 1..Len(dataCsv) :
              (\A i \in GeojsonPositions(regionsDir) : FileName(i) # dataCsv[j]["region"])
                  => \A k \in MergedIdx : Merged.rows[k]["region"] # dataCsv[j]["region"]
        /\ Cardinality({ k \in MergedIdx : ~AllMetricsNull(Merged.rows[k]) })
             = Cardinality({ p \in (1..Len(gdfResult.json_df.rows)) \X (1..Len(dataCsv)) :
                               gdfResult.json_df.rows[p[1]]["name"] = dataCsv[p[2]]["region"] })

C3_Witness ==
    /\ Built
    /\ \E j \in 1..Len(dataCsv) :
          \A i \in GeojsonPositions(regionsDir) : FileName(i) # dataCsv[j]["region"]
    /\ \E k \in MergedIdx : IsSome(Merged.rows[k]["region"])

C4Attributes == {"csv_df", "geojson_df", "gdf"}

C4Columns == {"name", "geometry", "region", "value", "staffing", "cash_use", "serviceability"}

\* C4: the loader exposes csv_df, geojson_df and gdf, and the merged table has
\* the columns name, geometry, region, value, staffing, cash_use, serviceability
C4_LoaderExposesOrganizationJoin ==
    Built =>
        /\ C4Attributes \subseteq loader.attrs
        /\ C4Columns \subseteq Merged.columns

----------------------------------------------------------------------------
(* Properties of CSVLoader, checked under SpecCsv *)

OrgLoaded == csvResult.op = "load_organizations_data" /\ csvResult.status = "ok"

OutRows == csvResult.table.rows

NonZeroDenominators(raw) ==
    /\ Val(raw["by_staff"]) # 0
    /\ Val(raw["buget_limits"]) # 0
    /\ Val(raw["equipment"]) # 0

\* the cell holds the fraction num/den, den # 0
IsRatio(cell, num, den) ==
    /\ IsSome(cell)
    /\ Val(cell)[2] > 0
    /\ Val(cell)[1] * den = Val(cell)[2] * num

ExampleRow ==
    OrgRow(Some("X"), Some("A"), Some(100), Some(80), Some(100), Some(90), Some(50), Some(5))

\* C5: row i of the returned table carries the raw inputs of line i and the
\* ratios computed from them: staffing = by_list/by_staff, cash_use =
\* cash_execution/buget_limits, serviceability = (equipment - faulty)/equipment,
\* value = the least of the three; the example row gives 4/5, 9/10, 9/10, 4/5
C5_DerivedColumnsOfTheSameRow ==
    OrgLoaded =>
        /\ Len(OutRows) = Len(csvFile.rows)
        /\ \A i \in 1..Len(OutRows) :
              LET raw == csvFile.rows[i]
                  out == OutRows[i]
                  three == {out["staffing"], out["cash_use"], out["serviceability"]}
              IN /\ \A c \in OrgFields : out[c] = raw[c]
                 /\ Val(raw["by_staff"]) # 0 =>
                        IsRatio(out["staffing"], Val(raw["by_list"]), Val(raw["by_staff"]))
                 /\ Val(raw["buget_limits"]) # 0 =>
                        IsRatio(out["cash_use"], Val(raw["cash_execution"]), Val(raw["buget_limits"]))
                 /\ Val(raw["equipment"]) # 0 =>
                        IsRatio(out["serviceability"],
                                Val(raw["equipment"]) - Val(raw["faulty_equipment"]),
                                Val(raw["equipment"]))
                 /\ NonZeroDenominators(raw) =>
                        /\ out["value"] \in three
                        /\ \A m \in three :
                              Val(out["value"])[1] * Val(m)[2] <= Val(m)[1] * Val(out["value"])[2]
                 /\ raw = ExampleRow =>
                        /\ out["staffing"] = Some(<<4, 5>>)
                        /\ out["cash_use"] = Some(<<9, 10>>)
                        /\ out["serviceability"] = Some(<<9, 10>>)
                        /\ out["value"] = Some(<<4, 5>>)

C5_Witness ==
    /\ OrgLoaded
    /\ Len(OutRows) = 2
    /\ csvFile.rows[2] = ExampleRow
    /\ NonZeroDenominators(csvFile.rows[1])
    /\ OutRows[1]["value"] # OutRows[2]["value"]

\* C6: in a returned table, a row whose three denominators are non-zero has
\* staffing, cash_use, serviceability and value in [0, 1]
C6_MetricsWithinUnitInterval ==
    OrgLoaded =>
        \A i \in 1..Len(OutRows) :
            NonZeroDenominators(OutRows[i]) =>
                \A c \in DerivedCols :
                    /\ IsSome(OutRows[i][c])
                    /\ Val(OutRows[i][c])[2] > 0
                    /\ 0 <= Val(OutRows[i][c])[1]
                    /\ Val(OutRows[i][c])[1] <= Val(OutRows[i][c])[2]

C6_Witness ==
    /\ OrgLoaded
    /\ \E i \in 1..Len(OutRows) :
          /\ NonZeroDenominators(OutRows[i])
          /\ OutRows[i]["value"] = Some(<<1, 2>>)

ValidationFailed == csvResult.status = "error" /\ csvResult.kind = "validation"

\* the rows as the operation hands them to the model
HandedRows ==
    IF csvResult.op = "load_organizations_data" THEN org_df(csvFile).rows ELSE csvFile.rows

RowErrors(i) == ModelErrors(csvResult.model, HandedRows[i])

CsvCalled == csvResult.status # "none"

\* the call got as far as validating the rows
CsvValidated == CsvCalled /\ \E k \in 1..Len(csvResult.trace) : csvResult.trace[k] = "validate"

\* C11: a CSV load is all-or-nothing: a failed call returns no table; a
\* returned table has one row per line of the file, in file order, every one
\* of them valid and carrying the values of its line
C11_AllOrNothing ==
    /\ csvResult.status = "error" => csvResult.table = NoTable
    /\ (CsvValidated /\ \E i \in 1..Len(csvFile.rows) : RowErrors(i) # {}) =>
          csvResult.status = "error"
    /\ csvResult.status = "ok" =>
          /\ Len(OutRows) = Len(csvFile.rows)
          /\ \A i \in 1..Len(OutRows) :
                /\ RowErrors(i) = {}
                /\ \A c \in ModelFields(csvResult.model) : OutRows[i][c] = csvFile.rows[i][c]

C11_Witness ==
    /\ ValidationFailed
    /\ Len(csvFile.rows) = 2
    /\ RowErrors(1) = {}
    /\ RowErrors(2) # {}
    /\ csvResult.table = NoTable

\* C12: a CSV row holding a column that the record model of the call does
\* not declare is rejected by the call that validates it
C12_UnknownCsvFieldRejected ==
    (/\ CsvValidated
     /\ csvFile.rows # <<>>
     /\ csvFile.columns \ ModelFields(csvResult.model) # {})
    => csvResult.status = "error"

TraversalAttempt ==
    /\ csvResult.op = "load_csv"
    /\ IsSome(csvResult.base_dir)
    /\ ~IsRelativeTo(Resolve(csvFile.path), Resolve(Val(csvResult.base_dir)))

\* C15: load_csv called with a base_dir that the resolved path is not under
\* fails at the traversal check, its only step: the file is neither stat-ed,
\* nor read, nor validated
C15_TraversalCheckedFirst ==
    TraversalAttempt =>
        /\ csvResult.status = "error"
        /\ csvResult.kind = "traversal"
        /\ csvResult.trace = <<"resolve">>

C15_Witness ==
    /\ TraversalAttempt
    /\ csvResult.status = "error"
    /\ csvFile.size > MAX_FILE_SIZE
    /\ csvFile.rows # <<>>
    /\ Resolve(csvFile.path) = <<"etc", "passwd">>

\* C16: every failure of a CSV load is the loader's ValueError and its
\* message names the file
C16_EveryFailureNamesTheFile ==
    csvResult.status = "error" =>
        /\ csvResult.exc = "ValueError"
        /\ csvResult.namesPath

----------------------------------------------------------------------------
(* Properties of OrganizationRecord, checked under SpecRec *)

CrossPairs ==
    { <<"by_list", "by_staff">>, <<"cash_execution", "buget_limits">>,
      <<"faulty_equipment", "equipment">> }

FieldPasses(f) ==
    /\ IsSome(rec[f])
    /\ f \in OrgIntFields => (FieldMin <= Val(rec[f]) /\ Val(rec[f]) <= FieldMax)

FailingFields == { f \in OrgFields : ~FieldPasses(f) }

\* the pairs whose raw values break lesser <= greater
ViolatedPairs ==
    { p \in CrossPairs :
        IsSome(rec[p[1]]) /\ IsSome(rec[p[2]]) /\ Val(rec[p[1]]) > Val(rec[p[2]]) }

Names(p) == {p[1], p[2]}

\* C7: a row whose six integers are in [0,100] and which breaks a cross-field
\* rule is rejected, and the error names both fields of a broken pair
C7_CrossFieldViolationRejected ==
    (recResult.done /\ FailingFields = {} /\ ViolatedPairs # {}) =>
        /\ ~recResult.valid
        /\ recResult.errors # {}
        /\ \A e \in recResult.errors : \E p \in ViolatedPairs : e.names = Names(p)

C7_Witness ==
    /\ recResult.done
    /\ FailingFields = {}
    /\ rec["by_list"] = Some(60)
    /\ rec["by_staff"] = Some(50)
    /\ ~recResult.valid
    /\ \E e \in recResult.errors : e.names = {"by_list", "by_staff"}

\* C8 as stated: a failed validation has one entry per violated rule, for the
\* field rules and for the cross-field rules alike
C8_OneEntryPerViolatedRule ==
    recResult.done =>
        /\ \A f \in FailingFields : \E e \in recResult.errors : e.loc = f
        /\ FailingFields = {} =>
              \A p \in ViolatedPairs : \E e \in recResult.errors : e.names = Names(p)

FirstViolatedPair ==
    IF <<"by_list", "by_staff">> \in ViolatedPairs THEN <<"by_list", "by_staff">>
    ELSE IF <<"cash_execution", "buget_limits">> \in ViolatedPairs
         THEN <<"cash_execution", "buget_limits">>
         ELSE <<"faulty_equipment", "equipment">>

\* C8 as amended: a failed validation has one entry per field that fails its
\* own rule; when every field passes it has a single entry, for the first
\* broken cross-field rule in the order by_list/by_staff,
\* cash_execution/buget_limits, faulty_equipment/equipment
C8_FieldRulesAllCrossRuleFirst ==
    recResult.done =>
        /\ FailingFields # {} =>
              /\ { e.loc : e \in recResult.errors } = FailingFields
              /\ Cardinality(recResult.errors) = Cardinality(FailingFields)
        /\ (FailingFields = {} /\ ViolatedPairs # {}) =>
              /\ Cardinality(recResult.errors) = 1
              /\ \A e \in recResult.errors : e.names = Names(FirstViolatedPair)
        /\ recResult.valid <=> (FailingFields = {} /\ ViolatedPairs = {})

C8_Witness ==
    /\ recResult.done
    /\ FailingFields = {}
    /\ Cardinality(ViolatedPairs) = 3
    /\ Cardinality(recResult.errors) = 1

\* C10: a row with a field that fails its type or range check gets field
\* errors only, never a cross-field error
C10_CrossRulesOnlyAfterFieldChecks ==
    (recResult.done /\ FailingFields # {}) =>
        \A e \in recResult.errors : e.type # "value_error" /\ e.loc \in FailingFields

C10_Witness ==
    /\ recResult.done
    /\ rec["by_list"] = Some(101)
    /\ rec["by_staff"] = Some(50)
    /\ ViolatedPairs # {}
    /\ recResult.errors # {}
    /\ \A e \in recResult.errors : e.type # "value_error"

----------------------------------------------------------------------------
(* Properties of the size guard of DataLoader, checked under Spec *)

\* C14: no row of the merged table comes from a region file larger than
\* MAX_FILE_SIZE
C14_OversizedFileNeverMerged ==
    Built =>
        \A k \in MergedIdx : regionsDir[Val(Merged.rows[k]["geometry"])].size <= MAX_FILE_SIZE

\* C23: every row of a merged table has a name and a geometry, neither null
C23_NameAndGeometryNotNull ==
    Built =>
        /\ {"name", "geometry"} \subseteq Merged.columns
        /\ \A k \in MergedIdx :
              IsSome(Merged.rows[k]["name"]) /\ IsSome(Merged.rows[k]["geometry"])

\* the directory holds a .geojson file matching none of the CSV rows
C23_Witness ==
    /\ Built
    /\ Len(Merged.rows) = 2
    /\ \E k \in MergedIdx : AllMetricsNull(Merged.rows[k])
    /\ \E k \in MergedIdx : ~AllMetricsNull(Merged.rows[k])
    /\ \A k \in MergedIdx : IsSome(Merged.rows[k]["geometry"])

\* C24: the merged table is a GeoDataFrame, also when no CSV row matches a region
C24_MergedIsGeoDataFrame ==
    Built => gdfResult.klass = "GeoDataFrame"

C24_Witness ==
    /\ Built
    /\ gdfResult.klass = "GeoDataFrame"
    /\ dataCsv # <<>>
    /\ \A k \in MergedIdx : AllMetricsNull(Merged.rows[k])

----------------------------------------------------------------------------
(* Properties of geojson_loader, checked under SpecGeo *)

GeoFileLoaded == geoResult.op = "load_and_validate_geojson_file"

DirLoaded == geoResult.op = "load_all_regions"

\* the file handed to load_and_validate_geojson_file
GeoFile == Val(geoDir)[geoResult.index]

\* C18: load_and_validate_geojson_file returns only for a file of exactly one
\* feature; a file within the size limit holding 0 or 2 and more features
\* fails, after the read and before any validation, with a ValueError naming
\* the file and the number of features found
C18_SingleFeatureGuard ==
    GeoFileLoaded =>
        /\ geoResult.status = "ok" => Len(GeoFile.features) = 1
        /\ (GeoFile.size <= MAX_FILE_SIZE /\ Len(GeoFile.features) # 1) =>
              /\ geoResult.status = "error"
              /\ geoResult.exc = "ValueError"
              /\ geoResult.namesPath
              /\ geoResult.count = Some(Len(GeoFile.features))
              /\ geoResult.trace = <<"stat", "read">>

C18_Witness ==
    /\ GeoFileLoaded
    /\ Len(GeoFile.features) = 2
    /\ geoResult.status = "error"
    /\ geoResult.count = Some(2)

\* the file fails one of the checks: size, single feature, schema
FailsItsChecks(f) ==
    \/ f.size > MAX_FILE_SIZE
    \/ Len(f.features) # 1
    \/ IsSome(f.features[1].properties.name) = FALSE
    \/ f.features[1].gtype \notin {"Polygon", "MultiPolygon"}

RegionEntries == { i \in 1..Len(Val(geoDir)) : Val(geoDir)[i].suffix = ".geojson" }

BadEntries == { i \in RegionEntries : FailsItsChecks(Val(geoDir)[i]) }

\* C19: load_all_regions is fail-fast: with one failing .geojson file in the
\* directory, at any position, the call raises, returns no table, and loads
\* no file after the first failing one
C19_FailFast ==
    (DirLoaded /\ BadEntries # {}) =>
        /\ geoResult.status = "error"
        /\ geoResult.table = NoTable
        /\ \A k \in 1..Len(geoResult.loaded) : \A b \in BadEntries : geoResult.loaded[k] <= b

C19_Witness ==
    /\ DirLoaded
    /\ Len(Val(geoDir)) = 3
    /\ BadEntries = {3}
    /\ RegionEntries = {1, 2, 3}
    /\ geoResult.loaded = <<1, 2, 3>>
    /\ geoResult.status = "error"

\* C20: load_all_regions loads .geojson entries only; the other entries cause
\* no error; the error of the empty directory is raised exactly when the
\* directory has no .geojson entry
C20_OtherEntriesIgnored ==
    DirLoaded =>
        /\ \A k \in 1..Len(geoResult.loaded) : geoResult.loaded[k] \in RegionEntries
        /\ geoResult.kind = "no_files" <=> RegionEntries = {}
        /\ (RegionEntries # {} /\ BadEntries = {}) => geoResult.status = "ok"

C20_Witness ==
    /\ DirLoaded
    /\ geoResult.status = "ok"
    /\ \E i \in 1..Len(Val(geoDir)) :
          Val(geoDir)[i].suffix = ".txt" /\ Val(geoDir)[i].size > MAX_FILE_SIZE
    /\ Val(geoDir)[1].suffix = ".txt"

DirTable == geoResult.table

DirReturned == DirLoaded /\ geoResult.status = "ok"

\* the value of property c in the region file at position i
FileProperty(i, c) == Val(geoDir)[i].features[1].properties[c]

\* C21: of the property columns, load_all_regions drops those and only those
\* that are empty in every region file: a column with a value in at least one
\* file is in the returned table
C21_OnlyEmptyColumnsDropped ==
    DirReturned =>
        \A c \in GeoCols \ {"geometry"} :
            c \in DirTable.columns <=> \E i \in RegionEntries : IsSome(FileProperty(i, c))

\* C22: the names of the returned table are pairwise distinct, the row of a
\* name is the one of the first file carrying it in directory order, and
\* every name of a loaded file is in the table
C22_FirstFilePerName ==
    DirReturned =>
        /\ \A k, l \in 1..Len(DirTable.rows) :
              DirTable.rows[k]["name"] = DirTable.rows[l]["name"] => k = l
        /\ \A i \in RegionEntries :
              \E k \in 1..Len(DirTable.rows) :
                 /\ DirTable.rows[k]["name"] = FileProperty(i, "name")
                 /\ Val(DirTable.rows[k]["geometry"]) <= i
                 /\ FileProperty(Val(DirTable.rows[k]["geometry"]), "name") = FileProperty(i, "name")
        /\ \A k, l \in 1..Len(DirTable.rows) :
              k < l => Val(DirTable.rows[k]["geometry"]) < Val(DirTable.rows[l]["geometry"])

C22_Witness ==
    /\ DirReturned
    /\ Len(Val(geoDir)) = 3
    /\ RegionEntries = {1, 2, 3}
    /\ FileProperty(1, "name") = FileProperty(3, "name")
    /\ FileProperty(1, "name") # FileProperty(2, "name")
    /\ Val(geoDir)[1] # Val(geoDir)[3]
    /\ Len(DirTable.rows) = 2

----------------------------------------------------------------------------
(* Properties of the resource guards, checked under SpecLoaders *)

Steps(trace) == { trace[k] : k \in 1..Len(trace) }

\* C13: a file larger than MAX_FILE_SIZE handed to load_analytic_data,
\* load_organizations_data, load_csv or load_and_validate_geojson_file is
\* rejected without a read, a computation or a validation of its content; a
\* file of exactly MAX_FILE_SIZE is not rejected for its size
C13_SizeCheckedBeforeRead ==
    /\ CsvCalled =>
          /\ csvFile.size > MAX_FILE_SIZE =>
                /\ csvResult.status = "error"
                /\ Steps(csvResult.trace) \cap {"read", "compute", "validate"} = {}
          /\ csvResult.kind = "size" => csvFile.size > MAX_FILE_SIZE
    /\ GeoFileLoaded =>
          /\ GeoFile.size > MAX_FILE_SIZE =>
                /\ geoResult.status = "error"
                /\ geoResult.trace = <<"stat">>
          /\ geoResult.kind = "size" => GeoFile.size > MAX_FILE_SIZE

C13_Witness ==
    /\ GeoFileLoaded
    /\ GeoFile.size = MAX_FILE_SIZE + 1
    /\ Len(GeoFile.features) = 1
    /\ ~FailsItsChecks([GeoFile EXCEPT !.size = 1])
    /\ geoResult.status = "error"

\* the exception classes of the ordinary data errors: invalid rows, a
\* missing column, a wrong number of features, an invalid feature
DataErrorExcs ==
    LET csv == { load_csv([columns |-> DOMAIN r, size |-> 1, path |-> <<"f.csv">>,
                           rows |-> <<r>>], m, None).exc :
                    r \in DataRows \cup CommentedOrgRows,
                    m \in {"AnalyticRecord", "OrganizationRecord"} }
        geo == { load_and_validate_geojson_file(f, 1).exc :
                    f \in { g \in GeoFiles : g.size <= MAX_FILE_SIZE } }
    IN (csv \cup geo) \ {""}

ResourceViolation(kind) == kind \in {"size", "traversal"}

\* C17 as stated: the exception class of a resource-limit violation is never
\* the class of an ordinary data error
C17_ResourceErrorsOfTheirOwnClass ==
    /\ ResourceViolation(csvResult.kind) => csvResult.exc \notin DataErrorExcs
    /\ ResourceViolation(geoResult.kind) => geoResult.exc \notin DataErrorExcs

\* C17: a resource-limit violation, and no other failure, is written to the
\* security logger as a warning; it is raised as a ValueError, the class of
\* ordinary data errors
C17_ResourceErrorsLoggedAsSecurity ==
    /\ CsvCalled =>
          /\ csvResult.logged <=> (TraversalAttempt \/ csvFile.size > MAX_FILE_SIZE)
          /\ csvResult.logged => (csvResult.exc = "ValueError" /\ csvResult.exc \in DataErrorExcs)
    /\ GeoFileLoaded =>
          /\ geoResult.logged <=> GeoFile.size > MAX_FILE_SIZE
          /\ geoResult.logged => (geoResult.exc = "ValueError" /\ geoResult.exc \in DataErrorExcs)
    /\ DirLoaded =>
          /\ geoResult.logged <=>
                (BadEntries # {} /\
                 Val(geoDir)[CHOOSE b \in BadEntries : \A c \in BadEntries : b <= c].size
                     > MAX_FILE_SIZE)
          /\ geoResult.logged => (geoResult.exc = "ValueError" /\ geoResult.exc \in DataErrorExcs)

C17_Witness ==
    /\ DirLoaded
    /\ geoResult.loaded = <<1, 2>>
    /\ Val(geoDir)[2].size > MAX_FILE_SIZE
    /\ geoResult.logged
    /\ geoResult.exc = "ValueError"

----------------------------------------------------------------------------
(* Properties of repeated loads, checked under SpecReload *)

\* C25: a later read of the table through the same loader returns the table
\* of the first load, whatever was added to the input files since
C25_LaterReadsReturnTheBuiltTable ==
    reread.status # "none" => reread = gdfResult

----------------------------------------------------------------------------
(* Properties of the pages, checked under SpecPages *)

\* C26: no callback changes the module-level tables or the whitelist
C26_PagesNeverMutated == [][pages' = pages]_vars

C26_Witness ==
    /\ response.op = "navigate"
    /\ response.page = "dashboard"
    /\ Len(pages.home_gdf.rows) = 2
    /\ \E k \in 1..2 : ~IsSome(pages.home_gdf.rows[k]["value"])

PageCalled == response.op = "update_page"

\* the names of the table of the region page
TableNames == { Val(pages.region_gdf.rows[k]["name"]) : k \in 1..Len(pages.region_gdf.rows) }

\* the region parameter as parse_qs gives it, and as update_page looks it up
Requested == RegionParam(response.search)

LookedUp == unquote_plus(Requested)

\* C27 as stated: update_page returns a page for every query string; without
\* a region value the page is 'not selected' or 'not specified'; with a value
\* that is not a name of the table it is 'not found', without the value; the
\* dashboard is shown for whitelisted names only
C27_MissIsNotFound ==
    PageCalled =>
        /\ response.status = "ok"
        /\ Requested = <<>> => response.page \in {"not_selected", "not_specified"}
        /\ (Requested # <<>> /\ LookedUp \notin TableNames) =>
              (response.page = "not_found" /\ response.region = None)
        /\ response.page = "dashboard" => Val(response.region) \in pages.VALID_REGIONS

\* C27: update_page returns a page for every query string: 'not selected'
\* without "region=" in it, 'not specified' without a region value, the fixed
\* 'validation error' page for a value of more than 200 characters, the
\* fixed 'not found' page for a shorter value that, decoded, is not a name of
\* the table, and the dashboard of the name otherwise; no page but the
\* dashboard carries a region
C27_FixedPageOnEveryMiss ==
    PageCalled =>
        /\ response.status = "ok"
        /\ response.page =
              (IF response.search = <<>> \/ ~Contains(response.search, RegionEquals)
               THEN "not_selected"
               ELSE IF Requested = <<>> THEN "not_specified"
               ELSE IF Len(Requested) > MAX_REGION_NAME_LENGTH THEN "validation_error"
               ELSE IF LookedUp \notin TableNames THEN "not_found"
               ELSE "dashboard")
        /\ response.region = (IF response.page = "dashboard" THEN Some(LookedUp) ELSE None)
        /\ response.page = "dashboard" => LookedUp \in pages.VALID_REGIONS

C27_Witness ==
    /\ PageCalled
    /\ Requested = <<"Z">>
    /\ response.page = "not_found"
    /\ response.region = None

MapCalled == response.op = "update_map" /\ response.status = "ok"

\* the name of the region at index label i of the home page's table
HomeName(i) == Val(pages.home_gdf.rows[i + 1]["name"])

\* the characters that would end or split the value of a query parameter
Reserved == {"&", "=", "+", "?", " ", "#"}

C29_NavigationRoundTrip ==
    response.op = "navigate" =>
        /\ response.page = "dashboard"
        /\ response.region = response.clicked

----------------------------------------------------------------------------
(* Properties of the zero denominators, checked under SpecCsv *)

DefinedRatios(out) ==
    { out[c] : c \in { d \in {"staffing", "cash_use", "serviceability"} : IsSome(out[d]) } }

\* C30: a file whose rows hold zero denominators loads; in the returned
\* table the ratio of a zero denominator is null, value is the least of the
\* ratios that are not null and lies in [0, 1], and is null when all three are
C30_ZeroDenominatorsGiveNulls ==
    /\ (csvResult.op = "load_organizations_data" /\ csvResult.status = "error") =>
          csvResult.kind \in {"size", "column", "validation"}
    /\ OrgLoaded =>
          \A i \in 1..Len(OutRows) :
              LET raw == csvFile.rows[i]
                  out == OutRows[i]
                  defined == DefinedRatios(out)
              IN /\ Val(raw["by_staff"]) = 0 => out["staffing"] = None
                 /\ Val(raw["buget_limits"]) = 0 => out["cash_use"] = None
                 /\ Val(raw["equipment"]) = 0 => out["serviceability"] = None
                 /\ defined = {} => out["value"] = None
                 /\ defined # {} =>
                       /\ out["value"] \in defined
                       /\ \A m \in defined :
                             Val(out["value"])[1] * Val(m)[2] <= Val(m)[1] * Val(out["value"])[2]
                       /\ Val(out["value"])[2] > 0
                       /\ 0 <= Val(out["value"])[1]
                       /\ Val(out["value"])[1] <= Val(out["value"])[2]

C30_Witness ==
    /\ OrgLoaded
    /\ Len(OutRows) = 2
    /\ Val(csvFile.rows[1]["by_staff"]) = 0
    /\ Val(csvFile.rows[1]["buget_limits"]) # 0
    /\ OutRows[1]["staffing"] = None
    /\ IsSome(OutRows[1]["value"])
    /\ \A c \in {"by_staff", "buget_limits", "equipment"} : Val(csvFile.rows[2][c]) = 0
    /\ OutRows[2]["value"] = None

====
